---------------------------- MODULE Spec2Model ----------------------------
(* Campus-admin assistant: the student tools of tools.py over the student   *)
(* collection, the admin signup/login routes and the protected REST routes   *)
(* of main.py, the agent graph of agent.py with its checkpointed             *)
(* conversation threads, and the identity -> thread mapping of               *)
(* openai_sdk_agent.py.                                                      *)
(*                                                                           *)
(* A Python str is a sequence of one-character strings, so that lower(),     *)
(* strip(), int() and str() are computed character by character.             *)
EXTENDS Integers, Sequences, FiniteSets, TLC

VARIABLES
    students,   \* the student collection, documents in natural order
    nextOid,    \* the next ObjectId insert_one generates
    last,       \* the last request served and the payload it returned
    ops,        \* the number of requests served
    pc,         \* concurrent requests: where each one stands
    req,        \* concurrent requests: the arguments of each
    reply,      \* concurrent requests: what each returned
    admins,     \* the admin collection
    signed,     \* the (email, password) pairs of the signups that succeeded
    now,        \* the clock, in hours
    authLast,   \* the last auth request served and its response
    checkpoints,\* the checkpointer: thread_id -> the persisted "messages" channel
    chatLast,   \* the last chat request served and its response
    threads     \* openai_sdk_agent.py: the identity -> thread mappings

storeVars == <<students, nextOid, last, ops>>
addVars == <<pc, req, reply>>
authVars == <<admins, signed, now, authLast>>
chatVars == <<checkpoints, chatLast>>
vars ==
    <<students, nextOid, last, ops, pc, req, reply, admins, signed, now, authLast,
      checkpoints, chatLast, threads>>

-----------------------------------------------------------------------------
(* Python string and integer conversions *)

Digits == <<"0", "1", "2", "3", "4", "5", "6", "7", "8", "9">>

IsDigit(c) == \E i \in 1..10 : Digits[i] = c

DigitVal(c) == (CHOOSE i \in 1..10 : Digits[i] = c) - 1

IsSpace(c) == c = " "

LowerChar(c) ==
    CASE c = "A" -> "a"
      [] c = "B" -> "b"
      [] OTHER -> c

\* str.lower()
Lower(s) == [i \in 1..Len(s) |-> LowerChar(s[i])]

RECURSIVE LStrip(_)
LStrip(s) == IF s # <<>> /\ IsSpace(Head(s)) THEN LStrip(Tail(s)) ELSE s

RECURSIVE RStrip(_)
RStrip(s) ==
    IF s # <<>> /\ IsSpace(s[Len(s)]) THEN RStrip(SubSeq(s, 1, Len(s) - 1)) ELSE s

\* str.strip()
Strip(s) == RStrip(LStrip(s))

\* int(s) succeeds: surrounding whitespace is ignored, the rest is decimal digits
IntParses(s) ==
    LET t == Strip(s) IN t # <<>> /\ \A i \in 1..Len(t) : IsDigit(t[i])

RECURSIVE DigitsVal(_)
DigitsVal(t) ==
    IF t = <<>> THEN 0
    ELSE 10 * DigitsVal(SubSeq(t, 1, Len(t) - 1)) + DigitVal(t[Len(t)])

\* int(s), for a string on which int() succeeds
IntOf(s) == DigitsVal(Strip(s))

\* str(n), for n >= 0
RECURSIVE StrOf(_)
StrOf(n) ==
    IF n < 10 THEN <<Digits[n + 1]>>
    ELSE StrOf(n \div 10) \o <<Digits[(n % 10) + 1]>>

-----------------------------------------------------------------------------
(* The student collection: documents in natural (insertion) order *)

\* index of the first document whose field equals value, 0 when there is none
FindIdx(coll, field, value) ==
    IF \E i \in 1..Len(coll) : coll[i][field] = value
    THEN CHOOSE i \in 1..Len(coll) :
            /\ coll[i][field] = value
            /\ \A j \in 1..(i - 1) : coll[j][field] # value
    ELSE 0

\* collection.find_one({field: value}); None is modelled by the record NoDoc
NoDoc == [none |-> TRUE]

IsNone(d) == "none" \in DOMAIN d

find_one(coll, field, value) ==
    LET i == FindIdx(coll, field, value) IN IF i = 0 THEN NoDoc ELSE coll[i]

\* collection.insert_one(doc)
insert_one(coll, doc) == Append(coll, doc)

\* $set of one field on a document (creates the field when it is absent)
SetField(doc, field, value) ==
    [f \in DOMAIN doc \cup {field} |-> IF f = field THEN value ELSE doc[f]]

\* collection.update_one({qf: qv}, {"$set": {field: value}}): first match only
update_one(coll, qf, qv, field, value) ==
    LET i == FindIdx(coll, qf, qv) IN
    [coll    |-> IF i = 0 THEN coll
                 ELSE [coll EXCEPT ![i] = SetField(coll[i], field, value)],
     matched |-> IF i = 0 THEN 0 ELSE 1,
     idx     |-> i]

\* collection.delete_one({qf: qv}): first match only
delete_one(coll, qf, qv) ==
    LET i == FindIdx(coll, qf, qv) IN
    [coll    |-> IF i = 0 THEN coll
                 ELSE SubSeq(coll, 1, i - 1) \o SubSeq(coll, i + 1, Len(coll)),
     deleted |-> IF i = 0 THEN 0 ELSE 1,
     idx     |-> i]

-----------------------------------------------------------------------------
(* tools.py: the student tools. Each returns the collection it leaves and the *)
(* payload it returns; kind "raise" is an exception leaving the tool.         *)

Err(msg) == [kind |-> "error", error |-> msg]

Raised(exc) == [kind |-> "raise", exc |-> exc]

\* student["_id"] = str(student["_id"])
WithStrId(doc) == [doc EXCEPT !["_id"] = StrOf(doc["_id"])]

\* email.lower().strip()
NormEmail(s) == Strip(Lower(s))

\* email = email.lower().strip(); students.find_one({"email": email})
add_student_exists(coll, email) ==
    ~IsNone(find_one(coll, "email", Strip(Lower(email))))

add_student_doc(oid, name, student_id, department, email) ==
    [name |-> name, student_id |-> student_id, department |-> department,
     email |-> Strip(Lower(email)), created_at |-> oid] @@ ("_id" :> oid)

add_student_conflict(email) ==
    [kind |-> "error", error |-> "already exists", email |-> Strip(Lower(email))]

add_student_added(doc) ==
    [kind |-> "ok", message |-> "Student added successfully",
     student |-> WithStrId(doc)]

add_student(coll, oid, name, student_id, department, email) ==
    LET doc == add_student_doc(oid, name, student_id, department, email)
    IN  IF add_student_exists(coll, email)
        THEN [coll |-> coll, result |-> add_student_conflict(email)]
        ELSE [coll |-> insert_one(coll, doc), result |-> add_student_added(doc)]

\* the document get_student and send_email resolve an identifier to, or NoDoc
Resolve(coll, identifier) ==
    LET id == Strip(identifier)
        s  == find_one(coll, "email", Lower(id))
    IN  IF ~IsNone(s) THEN s
        ELSE IF IntParses(id) THEN find_one(coll, "student_id", IntOf(id))
        ELSE NoDoc

get_student(coll, identifier) ==
    LET s == Resolve(coll, identifier)
    IN  [coll |-> coll,
         result |-> IF IsNone(s) THEN Err("Student not found")
                    ELSE [kind |-> "student", student |-> WithStrId(s)]]

\* the query update_student and delete_student build from an identifier
QueryOf(coll, identifier) ==
    LET id == Strip(identifier)
    IN  IF IsNone(find_one(coll, "email", Lower(id))) /\ IntParses(id)
        THEN [field |-> "student_id", value |-> IntOf(id)]
        ELSE [field |-> "email", value |-> Lower(id)]

\* the whitelist with a field too many
AllowedFields_wide == {"name", "department", "email", "student_id", "created_at"}

AllowedFields == {"name", "department", "email", "student_id"}

\* tools.py:85-87: the follow-up fetch and the payload
update_student_fetch(upd, student) ==
    IF IsNone(student)
    THEN [coll |-> upd.coll, result |-> Raised("TypeError"), idx |-> upd.idx]
    ELSE [coll |-> upd.coll,
          result |-> [kind |-> "ok", message |-> "Student updated successfully",
                      student |-> WithStrId(student)],
          idx |-> upd.idx]

\* tools.py:82-85: the write, then the fetch by the query (by the new value
\* when the field is the email)
update_student_write(coll, q, field, v, upd) ==
    IF upd.matched = 0
    THEN [coll |-> coll, result |-> Err("Student not found"), idx |-> 0]
    ELSE update_student_fetch(upd,
            IF field # "email" THEN find_one(upd.coll, q.field, q.value)
            ELSE find_one(upd.coll, "email", v))

\* tools.py:68-82: the checks on the field and the value, then the $set of
\* the value as given (of its integer for student_id)
update_student_checked(coll, q, field, new_value, v) ==
    IF field \notin AllowedFields
    THEN [coll |-> coll, result |-> Err("Invalid field"), idx |-> 0]
    ELSE IF field = "email" /\ ~IsNone(find_one(coll, "email", NormEmail(new_value)))
    THEN [coll |-> coll,
          result |-> [kind |-> "error", error |-> "already exists",
                      email |-> NormEmail(new_value)],
          idx |-> 0]
    ELSE IF field = "student_id" /\ ~IntParses(new_value)
    THEN [coll |-> coll, result |-> Err("student_id must be an integer"),
          idx |-> 0]
    ELSE update_student_write(coll, q, field, v,
                              update_one(coll, q.field, q.value, field, v))

update_student(coll, identifier, field, new_value) ==
    update_student_checked(coll, QueryOf(coll, identifier), field, new_value,
        IF field = "student_id" /\ IntParses(new_value)
        THEN IntOf(new_value) ELSE new_value)

\* tools.py:103-106
delete_student_result(coll, del) ==
    IF del.deleted = 0
    THEN [coll |-> coll, result |-> Err("Student not found")]
    ELSE [coll |-> del.coll,
          result |-> [kind |-> "ok", message |-> "Student deleted successfully"]]

\* tools.py:95-103
delete_student_query(coll, q) ==
    delete_student_result(coll, delete_one(coll, q.field, q.value))

delete_student(coll, identifier) ==
    delete_student_query(coll, QueryOf(coll, identifier))

send_email(coll, student_identifier) ==
    LET s == Resolve(coll, student_identifier)
    IN  [coll |-> coll,
         result |-> IF IsNone(s) THEN Err("Student not found")
                    ELSE [kind |-> "ok", message |-> "Email mock sent to",
                          to |-> s.email]]

-----------------------------------------------------------------------------
(* Requests against the student collection, one at a time *)

MaxOps == 3

Names == {<<"n">>}
Depts == {<<"d">>}
Ids == {1, 2}
Strings == {<<"a">>, <<" ", "B">>, <<"1">>, <<"2">>}
Fields == AllowedFields \cup {"created_at", "not_a_field"}

Procs == {1, 2}

\* the parts of the state a specification leaves alone
NoRequests == [p \in Procs |-> "idle"]
NoArgs == [p \in Procs |-> <<>>]
NoReply == [p \in Procs |-> [kind |-> "none"]]
NoLast == [op |-> "none"]
ThreadIds == {<<"a">>, <<"b">>}
NoThreads == [t \in ThreadIds |-> <<>>]

Init ==
    /\ students = <<>>
    /\ nextOid = 1
    /\ last = NoLast
    /\ ops = 0
    /\ pc = NoRequests
    /\ req = NoArgs
    /\ reply = NoReply
    /\ admins = <<>>
    /\ signed = {}
    /\ now = 0
    /\ authLast = NoLast
    /\ checkpoints = NoThreads
    /\ chatLast = NoLast
    /\ threads = <<>>

AddStudent ==
    /\ ops < MaxOps
    /\ \E name \in Names, sid \in Ids, dept \in Depts, email \in Strings :
        LET r == add_student(students, nextOid, name, sid, dept, email) IN
        /\ students' = r.coll
        /\ nextOid' = IF r.result.kind = "ok" THEN nextOid + 1 ELSE nextOid
        /\ last' = [op |-> "add_student", result |-> r.result]
    /\ ops' = ops + 1
    /\ UNCHANGED <<addVars, authVars, chatVars, threads>>

GetStudent ==
    /\ ops < MaxOps
    /\ \E identifier \in Strings :
        LET r == get_student(students, identifier) IN
        /\ students' = r.coll
        /\ last' = [op |-> "get_student", identifier |-> identifier,
                    result |-> r.result]
    /\ ops' = ops + 1
    /\ UNCHANGED <<nextOid, addVars, authVars, chatVars, threads>>

UpdateStudent ==
    /\ ops < MaxOps
    /\ \E identifier \in Strings, field \in Fields, new_value \in Strings :
        LET r == update_student(students, identifier, field, new_value) IN
        /\ students' = r.coll
        /\ last' = [op |-> "update_student", identifier |-> identifier,
                    field |-> field, new_value |-> new_value, idx |-> r.idx,
                    result |-> r.result]
    /\ ops' = ops + 1
    /\ UNCHANGED <<nextOid, addVars, authVars, chatVars, threads>>

DeleteStudent ==
    /\ ops < MaxOps
    /\ \E identifier \in Strings :
        LET r == delete_student(students, identifier) IN
        /\ students' = r.coll
        /\ last' = [op |-> "delete_student", identifier |-> identifier,
                    result |-> r.result]
    /\ ops' = ops + 1
    /\ UNCHANGED <<nextOid, addVars, authVars, chatVars, threads>>

SendEmail ==
    /\ ops < MaxOps
    /\ \E identifier \in Strings :
        LET r == send_email(students, identifier) IN
        /\ students' = r.coll
        /\ last' = [op |-> "send_email", identifier |-> identifier,
                    result |-> r.result]
    /\ ops' = ops + 1
    /\ UNCHANGED <<nextOid, addVars, authVars, chatVars, threads>>

Next == AddStudent \/ GetStudent \/ UpdateStudent \/ DeleteStudent \/ SendEmail

Spec == Init /\ [][Next]_vars

-----------------------------------------------------------------------------
(* Two POST /students requests served concurrently: the routes are plain def *)
(* functions, which the server runs on separate threads, so the find_one and *)
(* the insert_one of one add_student call interleave with the other call's.  *)

RaceEmails == {<<"a">>, <<"b">>, <<" ", "B">>}

AddArgs ==
    [name : Names, student_id : Ids, department : Depts, email : RaceEmails]

InitRace ==
    /\ students = <<>>
    /\ nextOid = 1
    /\ last = NoLast
    /\ ops = 0
    /\ pc = [p \in Procs |-> "find_one"]
    /\ req \in [Procs -> AddArgs]
    /\ reply = NoReply
    /\ admins = <<>>
    /\ signed = {}
    /\ now = 0
    /\ authLast = NoLast
    /\ checkpoints = NoThreads
    /\ chatLast = NoLast
    /\ threads = <<>>

\* tools.py:19-21: the existence check of one request
RaceFindOne ==
    \E p \in Procs :
        /\ pc[p] = "find_one"
        /\ IF add_student_exists(students, req[p].email)
           THEN /\ reply' = [reply EXCEPT ![p] = add_student_conflict(req[p].email)]
                /\ pc' = [pc EXCEPT ![p] = "done"]
           ELSE /\ reply' = reply
                /\ pc' = [pc EXCEPT ![p] = "insert_one"]
        /\ UNCHANGED <<students, nextOid, last, ops, req, authVars, chatVars, threads>>

\* tools.py:22-31: the insert of one request
RaceInsertOne ==
    \E p \in Procs :
        /\ pc[p] = "insert_one"
        /\ LET doc == add_student_doc(nextOid, req[p].name, req[p].student_id,
                                      req[p].department, req[p].email)
           IN  /\ students' = insert_one(students, doc)
               /\ reply' = [reply EXCEPT ![p] = add_student_added(doc)]
        /\ nextOid' = nextOid + 1
        /\ pc' = [pc EXCEPT ![p] = "done"]
        /\ UNCHANGED <<last, ops, req, authVars, chatVars, threads>>

NextRace == RaceFindOne \/ RaceInsertOne

SpecRace == InitRace /\ [][NextRace]_vars

\* C3: two add_student calls with the same normalized email leave exactly one
\* stored record and exactly one "already exists" error, however the two
\* calls' find_one and insert_one steps interleave.
C3_OneRecordOneConflict ==
    ((\A p \in Procs : pc[p] = "done")
        /\ NormEmail(req[1].email) = NormEmail(req[2].email))
    => /\ Cardinality({i \in 1..Len(students) :
                        students[i].email = NormEmail(req[1].email)}) = 1
       /\ Cardinality({p \in Procs : reply[p].kind = "error"}) = 1

-----------------------------------------------------------------------------
(* main.py: admin signup, login and the bearer-token dependency *)

ACCESS_TOKEN_EXPIRE_HOURS == 12

\* db.py: a salted one-way hash, and its verification
hash_password(password) == <<"bcrypt", password>>

verify_password(password, hashed) == hashed = hash_password(password)

Http(status, detail) == [status |-> status, detail |-> detail]

admin_signup(coll, email, password, name, clock) ==
    LET e     == Strip(Lower(email))
        admin == [email |-> e, password |-> hash_password(password),
                  name |-> name, created_at |-> clock, verified |-> TRUE]
    IN  IF ~IsNone(find_one(coll, "email", e))
        THEN [coll |-> coll, response |-> Http(400, "Admin already exists")]
        ELSE [coll |-> insert_one(coll, admin),
              response |-> [status |-> 200, detail |-> "Admin created successfully",
                            admin |-> [email |-> e, name |-> name]]]

\* jwt.encode(payload, SECRET_KEY): the payload and the key that signed it
jwt_encode(payload, key) == [sub |-> payload.sub, exp |-> payload.exp, key |-> key]

admin_login(coll, username, password, clock) ==
    LET admin == find_one(coll, "email", username)
    IN  IF IsNone(admin) THEN Http(401, "Invalid credentials")
        ELSE IF ~verify_password(password, admin.password)
        THEN Http(401, "Invalid credentials")
        ELSE [status |-> 200, token_type |-> "bearer",
              access_token |->
                jwt_encode([sub |-> admin.email,
                            exp |-> clock + ACCESS_TOKEN_EXPIRE_HOURS],
                           "SECRET_KEY")]

\* get_current_admin without the expiry of the token
get_current_admin_unexpiring(coll, token, clock) ==
    IF token.key # "SECRET_KEY" THEN Http(401, "Invalid token")
    ELSE IF token.sub = <<>> THEN Http(401, "Invalid token")
    ELSE IF IsNone(find_one(coll, "email", token.sub))
    THEN Http(401, "Invalid token")
    ELSE [status |-> 200, email |-> token.sub]

get_current_admin(coll, token, clock) ==
    IF token.key # "SECRET_KEY" THEN Http(401, "Invalid token")
    ELSE IF token.exp <= clock THEN Http(401, "Token expired")
    ELSE IF token.sub = <<>> THEN Http(401, "Invalid token")
    ELSE IF IsNone(find_one(coll, "email", token.sub))
    THEN Http(401, "Invalid token")
    ELSE [status |-> 200, email |-> token.sub]

MaxClock == 18

AdminEmails == {<<"a">>, <<"b">>, <<" ", "B">>}
Passwords == {<<"p">>, <<"q">>}
Tokens ==
    [sub : {<<>>, <<"a">>, <<"b">>},
     exp : {0, ACCESS_TOKEN_EXPIRE_HOURS, 2 * ACCESS_TOKEN_EXPIRE_HOURS},
     key : {"SECRET_KEY", "forged"}]

InitAuth ==
    /\ students = <<>>
    /\ nextOid = 1
    /\ last = NoLast
    /\ ops = 0
    /\ pc = NoRequests
    /\ req = NoArgs
    /\ reply = NoReply
    /\ admins = <<>>
    /\ signed = {}
    /\ now = 0
    /\ authLast = NoLast
    /\ checkpoints = NoThreads
    /\ chatLast = NoLast
    /\ threads = <<>>

Signup ==
    /\ \E email \in AdminEmails, password \in Passwords :
        LET r == admin_signup(admins, email, password, <<"n">>, now) IN
        /\ admins' = r.coll
        /\ signed' = IF r.response.status = 200
                     THEN signed \cup {<<email, password>>} ELSE signed
        /\ authLast' = [op |-> "signup", response |-> r.response]
    /\ UNCHANGED <<now, storeVars, addVars, chatVars, threads>>

Login ==
    /\ \E username \in AdminEmails, password \in Passwords :
        authLast' = [op |-> "login", username |-> username, password |-> password,
                     response |-> admin_login(admins, username, password, now)]
    /\ UNCHANGED <<admins, signed, now, storeVars, addVars, chatVars, threads>>

\* a request to a protected route: the bearer token goes through get_current_admin
Authenticate ==
    /\ \E token \in Tokens :
        authLast' = [op |-> "get_current_admin", token |-> token,
                     response |-> get_current_admin(admins, token, now)]
    /\ UNCHANGED <<admins, signed, now, storeVars, addVars, chatVars, threads>>

Tick ==
    /\ now < MaxClock
    /\ now' = now + ACCESS_TOKEN_EXPIRE_HOURS \div 2
    /\ UNCHANGED <<admins, signed, authLast, storeVars, addVars, chatVars, threads>>

NextAuth == Signup \/ Login \/ Authenticate \/ Tick

SpecAuth == InitAuth /\ [][NextAuth]_vars

\* C10: after a successful signup(email, password), a login with that same
\* email string and password returns an access token (not 401) that
\* get_current_admin accepts.
C10_SignupThenLogin ==
    (authLast.op = "login" /\ <<authLast.username, authLast.password>> \in signed)
    => /\ authLast.response.status = 200
       /\ get_current_admin(admins, authLast.response.access_token, now).status = 200

-----------------------------------------------------------------------------
(* agent.py: the tool registry, agent_node and the compiled graph *)

\* agent.py:26-31
tools ==
    {"add_student", "get_student", "update_student", "delete_student",
     "list_students", "get_total_students", "get_students_by_department",
     "get_recent_onboarded_students", "get_active_students_last_7_days",
     "get_cafeteria_timings", "get_library_hours", "get_event_schedule",
     "send_email"}

HumanMessage(content) == [role |-> "user", content |-> content]

AIMessage(content, tool_calls) ==
    [role |-> "assistant", content |-> content, tool_calls |-> tool_calls]

ToolMessage(content, tool_call_id) ==
    [role |-> "tool", content |-> content, tool_call_id |-> tool_call_id]

\* tool.invoke(**tool_args): the tool's effect on the student collection and
\* its payload; kind "raise" is an exception leaving the tool
tool_invoke(coll, oid, name, args) ==
    CASE name = "add_student" ->
            add_student(coll, oid, args.name, args.student_id, args.department,
                        args.email)
      [] name = "get_student" -> get_student(coll, args.identifier)
      [] name = "update_student" ->
            LET r == update_student(coll, args.identifier, args.field, args.new_value)
            IN  [coll |-> r.coll, result |-> r.result]
      [] name = "delete_student" -> delete_student(coll, args.identifier)
      [] name = "send_email" -> send_email(coll, args.student_identifier)
      [] OTHER -> [coll |-> coll, result |-> [kind |-> "ok", message |-> name]]

\* agent.py:52-66: the observation appended for an invoked tool
agent_node_invoked(messages, response, tool_call, coll, r) ==
    IF r.result.kind # "raise"
    THEN [messages |-> messages \o
                <<response, ToolMessage(r.result, tool_call.id)>>,
          coll |-> r.coll, path |-> "tool_result",
          inserted |-> Len(r.coll) - Len(coll) = 1]
    ELSE [messages |-> messages \o
                <<response,
                  ToolMessage(<<"Error calling", tool_call.name, r.result.exc>>,
                              tool_call.id)>>,
          coll |-> r.coll, path |-> "tool_exception", inserted |-> FALSE]

\* agent.py:45-73: the first tool call of the response, and only that one
agent_node_call(messages, response, tool_call, coll, oid) ==
    IF tool_call.name \in tools
    THEN agent_node_invoked(messages, response, tool_call, coll,
                            tool_invoke(coll, oid, tool_call.name, tool_call.args))
    ELSE [messages |-> messages \o
                <<response,
                  ToolMessage(<<"Tool", tool_call.name, "not found">>, tool_call.id)>>,
          coll |-> coll, path |-> "tool_not_found", inserted |-> FALSE]

\* agent_node on the state's messages, given the response the model returns
agent_node(messages, response, coll, oid) ==
    IF response.tool_calls # <<>>
    THEN agent_node_call(messages, response, response.tool_calls[1], coll, oid)
    ELSE [messages |-> messages \o <<response>>, coll |-> coll, path |-> "final",
          inserted |-> FALSE]

\* AgentState.messages is a plain List: the channel keeps the last value
\* written to it, so a run's input replaces what the checkpoint held
channel_write(saved, written) == written

\* workflow.add_edge("agent", END)
workflow_edge(node) == "END"

\* one run of the compiled graph from a node: the nodes it executes, each
\* with the next response of the model
RECURSIVE run_nodes(_, _, _, _, _, _)
RECURSIVE run_node(_, _, _, _, _)
run_node(node, script, oid, trail, r) ==
    run_nodes(workflow_edge(node), r.messages, Tail(script), r.coll,
              IF r.inserted THEN oid + 1 ELSE oid, Append(trail, r.path))

run_nodes(node, messages, script, coll, oid, trail) ==
    IF node = "END" \/ script = <<>>
    THEN [messages |-> messages, coll |-> coll, oid |-> oid, paths |-> trail]
    ELSE run_node(node, script, oid, trail,
                  agent_node(messages, Head(script), coll, oid))

\* a run from the entry point on the state the model first sees
graph_from(state, script, coll, oid) ==
    [seen |-> state] @@ run_nodes("agent", state, script, coll, oid, <<>>)

\* agent.invoke / agent.astream under the checkpointer: load the thread's
\* checkpoint, write the input, run the graph, save the state
graph_run(saved, input, script, coll, oid) ==
    graph_from(channel_write(saved, input), script, coll, oid)

-----------------------------------------------------------------------------
(* main.py: the chat routes *)

\* the names main.py binds at module level (its imports, lines 1-17, and its
\* own definitions)
main_names ==
    {"os", "datetime", "jwt", "FastAPI", "Depends", "HTTPException", "Query",
     "Body", "CORSMiddleware", "OAuth2PasswordBearer", "OAuth2PasswordRequestForm",
     "StreamingResponse", "get_admin_collection", "hash_password",
     "verify_password", "agent", "memory_saver", "ChatGoogleGenerativeAI"}
    \cup tools

\* the outcome of a chat request whose graph run completed
chat_ran(run, response) ==
    [saved |-> run.messages, coll |-> run.coll, oid |-> run.oid, ran |-> TRUE,
     paths |-> run.paths, seen |-> run.seen, response |-> response]

\* the outcome of a chat request that ended before the graph ran
chat_failed(saved, coll, oid, response) ==
    [saved |-> saved, coll |-> coll, oid |-> oid, ran |-> FALSE, paths |-> <<>>,
     seen |-> <<>>, response |-> response]

\* main.py:100-102: the answer is the content of the last message, when that
\* is an AIMessage
chat_agent_answer(run, final) ==
    IF "AIMessage" \notin main_names
    THEN chat_ran(run, Http(500, "Chat error: NameError"))
    ELSE IF final.role # "assistant"
    THEN chat_ran(run, Http(500, "Chat error: Invalid response from agent"))
    ELSE chat_ran(run, [status |-> 200, response |-> final.content])

chat_agent_run(run) == chat_agent_answer(run, run.messages[Len(run.messages)])

\* GET /chat for an accepted admin. Every exception raised in the body, the
\* HTTPException for an empty query included, is caught and answered with 500.
chat_agent(saved, q, script, coll, oid) ==
    IF Strip(q) = <<>>
    THEN chat_failed(saved, coll, oid,
                     Http(500, "Chat error: Query cannot be empty"))
    ELSE IF "HumanMessage" \notin main_names
    THEN chat_failed(saved, coll, oid, Http(500, "Chat error: NameError"))
    ELSE chat_agent_run(graph_run(saved, <<HumanMessage(q)>>, script, coll, oid))

\* GET /chat/stream for an accepted admin: the graph runs inside the event
\* generator, on the input [("user", q)]
chat_agent_stream(saved, q, script, coll, oid) ==
    chat_ran(graph_run(saved, <<HumanMessage(q)>>, script, coll, oid),
             [status |-> 200, media_type |-> "text/event-stream"])

\* the tool calls a response of the model may name
CallAdd ==
    [name |-> "add_student", id |-> "call_1",
     args |-> [name |-> <<"n">>, student_id |-> 1, department |-> <<"d">>,
               email |-> <<"a">>]]
CallUpdate ==
    [name |-> "update_student", id |-> "call_1",
     args |-> [identifier |-> <<"1">>, field |-> "student_id",
               new_value |-> <<"2">>]]
CallUnknown == [name |-> "enroll_student", id |-> "call_1", args |-> <<>>]
CallGet ==
    [name |-> "get_student", id |-> "call_2", args |-> [identifier |-> <<"1">>]]

\* the responses the model may return
Responses ==
    {AIMessage(<<"r">>, calls) :
        calls \in {<<>>, <<CallAdd>>, <<CallUpdate>>, <<CallUnknown>>,
                   <<CallAdd, CallGet>>}}

Queries == {<<"q">>, <<" ">>}

\* the bearer tokens the chat requests present: issued at time 0 or forged
ChatTokens ==
    {t \in Tokens : t.exp = ACCESS_TOKEN_EXPIRE_HOURS /\ t.sub # <<>>}

TwoAdmins ==
    <<[email |-> <<"a">>, password |-> hash_password(<<"p">>), name |-> <<"n">>,
       created_at |-> 0, verified |-> TRUE],
      [email |-> <<"b">>, password |-> hash_password(<<"p">>), name |-> <<"n">>,
       created_at |-> 0, verified |-> TRUE]>>

InitChat ==
    /\ students = <<>>
    /\ nextOid = 1
    /\ last = NoLast
    /\ ops = 0
    /\ pc = NoRequests
    /\ req = NoArgs
    /\ reply = NoReply
    /\ admins = TwoAdmins
    /\ signed = {<<<<"a">>, <<"p">>>>, <<<<"b">>, <<"p">>>>}
    /\ now = 0
    /\ authLast = NoLast
    /\ checkpoints = NoThreads
    /\ chatLast = NoLast
    /\ threads = <<>>

ChatAgent ==
    /\ ops < MaxOps
    /\ \E token \in ChatTokens, q \in Queries, response \in Responses :
        \E auth \in {get_current_admin(admins, token, now)} :
            IF auth.status # 200
            THEN /\ chatLast' = [op |-> "/chat", status |-> 401, ran |-> FALSE,
                                 token |-> token, n |-> ops + 1]
                 /\ UNCHANGED <<checkpoints, students, nextOid>>
            ELSE \E saved \in {checkpoints[auth.email]} :
                 \E r \in {chat_agent(saved, q, <<response>>, students, nextOid)} :
                    /\ checkpoints' = [checkpoints EXCEPT ![auth.email] = r.saved]
                    /\ students' = r.coll
                    /\ nextOid' = r.oid
                    /\ chatLast' = [op |-> "/chat", status |-> r.response.status,
                                    ran |-> r.ran, admin |-> auth.email,
                                    token |-> token, n |-> ops + 1,
                                    q |-> IF r.ran THEN q ELSE <<>>,
                                    paths |-> r.paths, seen |-> r.seen,
                                    http |-> r.response]
    /\ ops' = ops + 1
    /\ UNCHANGED <<last, addVars, authVars, threads>>

ChatAgentStream ==
    /\ ops < MaxOps
    /\ \E token \in ChatTokens, q \in Queries, response \in Responses :
        \E auth \in {get_current_admin(admins, token, now)} :
            IF auth.status # 200
            THEN /\ chatLast' = [op |-> "/chat/stream", status |-> 401, ran |-> FALSE,
                                 token |-> token, n |-> ops + 1]
                 /\ UNCHANGED <<checkpoints, students, nextOid>>
            ELSE \E saved \in {checkpoints[auth.email]} :
                 \E r \in {chat_agent_stream(saved, q, <<response>>, students, nextOid)} :
                    /\ checkpoints' = [checkpoints EXCEPT ![auth.email] = r.saved]
                    /\ students' = r.coll
                    /\ nextOid' = r.oid
                    /\ chatLast' = [op |-> "/chat/stream", status |-> r.response.status,
                                    ran |-> r.ran, admin |-> auth.email,
                                    token |-> token, n |-> ops + 1,
                                    q |-> q, paths |-> r.paths, seen |-> r.seen,
                                    http |-> r.response]
    /\ ops' = ops + 1
    /\ UNCHANGED <<last, addVars, authVars, threads>>

NextChat == ChatAgent \/ ChatAgentStream

SpecChat == InitChat /\ [][NextChat]_vars

-----------------------------------------------------------------------------
(* Properties of the conversation threads and the dispatch loop *)

IsPrefix(a, b) == Len(a) <= Len(b) /\ \A i \in 1..Len(a) : b[i] = a[i]

ChatRan == chatLast.op \in {"/chat", "/chat/stream"} /\ chatLast.ran

Thread == checkpoints[chatLast.admin]

\* C4: threads are append-only per admin: the turn sequence persisted after a
\* chat request has the sequence persisted before it as a prefix, and the
\* model is invoked on every earlier turn followed by the new user utterance.
C4_ThreadAppendOnly ==
    [][(ops' = ops + 1 /\ chatLast'.op \in {"/chat", "/chat/stream"}
            /\ chatLast'.ran)
        => /\ IsPrefix(checkpoints[chatLast'.admin], checkpoints'[chatLast'.admin])
           /\ chatLast'.seen =
                checkpoints[chatLast'.admin] \o <<HumanMessage(chatLast'.q)>>]_vars

\* C5: the dispatch loop ends only on a response naming no tool: the last
\* turn of every completed chat request is an assistant turn, and /chat
\* returns that turn's content as the answer.
C5_EndsOnFinalAnswer ==
    ChatRan =>
        /\ Thread[Len(Thread)].role = "assistant"
        /\ Thread[Len(Thread)].tool_calls = <<>>
        /\ chatLast.op = "/chat" =>
            /\ chatLast.status = 200
            /\ chatLast.http.response = Thread[Len(Thread)].content

\* C6: every tool call a response of the model requests, not only the first,
\* has a tool-role turn carrying its result or error in the thread before the
\* request ends.
C6_NoObservationLost ==
    ChatRan =>
        \A i \in 1..Len(Thread) :
            Thread[i].role = "assistant" =>
                \A c \in 1..Len(Thread[i].tool_calls) :
                    \E j \in (i + 1)..Len(Thread) :
                        /\ Thread[j].role = "tool"
                        /\ Thread[j].tool_call_id = Thread[i].tool_calls[c].id

\* C7: on the tool-not-found path and on the tool-raises path, agent_node
\* appends the response and a tool-role observation, the loop continues with
\* another invocation of the model, and no exception leaves the loop.
C7_ErrorPathsContinue ==
    (ChatRan /\ chatLast.paths[1] \in {"tool_not_found", "tool_exception"})
    => /\ Len(Thread) >= 3
       /\ Thread[2].role = "assistant"
       /\ Thread[3].role = "tool"
       /\ Len(chatLast.paths) >= 2
       /\ chatLast.status = 200

-----------------------------------------------------------------------------
(* tools.py: the listing, analytics and FAQ tools *)

\* the position of a document with the greatest created_at
NewestIdx(coll) ==
    CHOOSE i \in 1..Len(coll) :
        /\ \A j \in 1..Len(coll) : coll[j].created_at <= coll[i].created_at
        /\ \A j \in 1..(i - 1) : coll[j].created_at < coll[i].created_at

\* students.find().sort("created_at", -1)
RECURSIVE SortNewestFirst(_)
SortNewestFirst(coll) ==
    IF coll = <<>> THEN <<>>
    ELSE <<coll[NewestIdx(coll)]>>
         \o SortNewestFirst(delete_one(coll, "_id", coll[NewestIdx(coll)]["_id"]).coll)

\* cursor.limit(n)
Limit(docs, n) == SubSeq(docs, 1, IF n < Len(docs) THEN n ELSE Len(docs))

StrIds(docs) == [i \in 1..Len(docs) |-> WithStrId(docs[i])]

list_students(coll) == [kind |-> "ok", students |-> StrIds(SortNewestFirst(coll))]

get_total_students(coll) == [kind |-> "ok", total_students |-> Len(coll)]

\* the $group by department with its counts
get_students_by_department(coll) ==
    [kind |-> "ok",
     students_by_department |->
        {[_id |-> d,
          count |-> Cardinality({i \in 1..Len(coll) : coll[i].department = d})] :
            d \in {coll[i].department : i \in 1..Len(coll)}}]

get_recent_onboarded_students(coll, limit) ==
    [kind |-> "ok", recent_students |-> StrIds(Limit(SortNewestFirst(coll), limit))]

get_active_students_last_7_days(coll) ==
    [kind |-> "ok", active_last_7_days |-> StrIds(Limit(coll, 3))]

get_cafeteria_timings == [kind |-> "ok", cafeteria_timings |-> "Mon-Fri 8am-8pm, Sat-Sun 9am-5pm"]

get_library_hours == [kind |-> "ok", library_hours |-> "Mon-Fri 9am-10pm, Sat 9am-6pm, Sun Closed"]

get_event_schedule == [kind |-> "ok", events |-> <<"Orientation", "Tech Talk", "Sports Day">>]

-----------------------------------------------------------------------------
(* main.py: the admin-protected REST routes. Each returns the collection it   *)
(* leaves, the payload of its tool and the HTTP status of the response.       *)

\* the status a route answers with: the given status for an error payload,
\* 500 for an exception leaving the tool, 200 otherwise
StatusOf(result, onError) ==
    IF result.kind = "error" THEN onError
    ELSE IF result.kind = "raise" THEN 500
    ELSE 200

Routed(r, onError) ==
    [coll |-> r.coll, result |-> r.result, status |-> StatusOf(r.result, onError)]

api_add_student(coll, oid, payload) ==
    IF {"name", "student_id", "department", "email"} \subseteq DOMAIN payload
    THEN Routed(add_student(coll, oid, payload.name, payload.student_id,
                            payload.department, payload.email), 400)
    ELSE [coll |-> coll, result |-> Err("Missing field"), status |-> 400]

\* the query parameters email and student_id; <<>> is a parameter not given
api_get_student(coll, email, student_id) ==
    IF email # <<>> THEN Routed(get_student(coll, email), 404)
    ELSE IF student_id # <<>> THEN Routed(get_student(coll, student_id), 404)
    ELSE [coll |-> coll, result |-> Err("Provide email or student_id"),
          status |-> 400]

api_update_student(coll, identifier, update) ==
    IF {"field", "new_value"} \subseteq DOMAIN update
    THEN Routed(update_student(coll, identifier, update.field, update.new_value),
                400)
    ELSE [coll |-> coll,
          result |-> Err("update must contain 'field' and 'new_value'"),
          status |-> 400]

api_delete_student(coll, identifier) == Routed(delete_student(coll, identifier), 404)

\* the routes that only read: the listing, the analytics and the FAQ
api_list_students(coll) == list_students(coll)
api_total_students(coll) == get_total_students(coll)
api_students_by_department(coll) == get_students_by_department(coll)
api_recent_students(coll, limit) == get_recent_onboarded_students(coll, limit)
api_active_last_7_days(coll) == get_active_students_last_7_days(coll)
api_cafeteria == get_cafeteria_timings
api_library == get_library_hours
api_events == get_event_schedule

\* Depends(get_current_admin) fails: the route's body does not run
Rejected(route, token, auth) ==
    [op |-> route, n |-> ops + 1, token |-> token, status |-> auth.status,
     ran |-> FALSE]

\* the route's body ran and answered
Answered(route, token, status, result) ==
    [op |-> route, n |-> ops + 1, token |-> token, status |-> status,
     ran |-> TRUE, result |-> result]

\* the bearer tokens the REST requests present
RestTokens ==
    {t \in Tokens :
        \/ t.key = "SECRET_KEY" /\ t.exp = ACCESS_TOKEN_EXPIRE_HOURS
        \/ t.sub = <<"a">> /\ t.exp = ACCESS_TOKEN_EXPIRE_HOURS
        \/ t.sub = <<"a">> /\ t.key = "SECRET_KEY"}

RestPayloads ==
    {[name |-> <<"n">>, student_id |-> 1, department |-> <<"d">>, email |-> <<"b">>],
     [name |-> <<"n">>, student_id |-> 2, department |-> <<"d">>, email |-> <<"a">>],
     [name |-> <<"n">>, student_id |-> 1, department |-> <<"d">>]}

RestIdentifiers == {<<"a">>, <<"1">>, <<"2">>}

RestUpdates ==
    {[field |-> "name", new_value |-> <<"m">>],
     [field |-> "email", new_value |-> <<"a">>],
     [field |-> "student_id", new_value |-> <<"x">>],
     [field |-> "student_id", new_value |-> <<"2">>],
     [field |-> "not_a_field", new_value |-> <<"m">>],
     [field |-> "name"]}

Limits == {1, 5}

\* one admin account, and one student record that admin added
InitRest ==
    /\ students = <<add_student_doc(1, <<"n">>, 1, <<"d">>, <<"a">>)>>
    /\ nextOid = 2
    /\ last = NoLast
    /\ ops = 1
    /\ pc = NoRequests
    /\ req = NoArgs
    /\ reply = NoReply
    /\ admins = <<TwoAdmins[1]>>
    /\ signed = {<<<<"a">>, <<"p">>>>}
    /\ now = 0
    /\ authLast = NoLast
    /\ checkpoints = NoThreads
    /\ chatLast = NoLast
    /\ threads = <<>>

ApiAddStudent ==
    /\ ops < MaxOps
    /\ \E token \in RestTokens, payload \in RestPayloads :
        \E auth \in {get_current_admin(admins, token, now)} :
            IF auth.status # 200
            THEN /\ last' = Rejected("POST /students", token, auth)
                 /\ UNCHANGED <<students, nextOid>>
            ELSE \E r \in {api_add_student(students, nextOid, payload)} :
                    /\ students' = r.coll
                    /\ nextOid' = IF r.result.kind = "ok" THEN nextOid + 1
                                  ELSE nextOid
                    /\ last' = Answered("POST /students", token, r.status, r.result)
    /\ ops' = ops + 1
    /\ UNCHANGED <<addVars, authVars, chatVars, threads>>

ApiGetStudent ==
    /\ ops < MaxOps
    /\ \E token \in RestTokens, email \in {<<>>, <<"a">>},
          student_id \in {<<>>, <<"2">>} :
        \E auth \in {get_current_admin(admins, token, now)} :
            IF auth.status # 200
            THEN last' = Rejected("GET /students", token, auth)
            ELSE \E r \in {api_get_student(students, email, student_id)} :
                    last' = Answered("GET /students", token, r.status, r.result)
    /\ ops' = ops + 1
    /\ UNCHANGED <<students, nextOid, addVars, authVars, chatVars, threads>>

ApiUpdateStudent ==
    /\ ops < MaxOps
    /\ \E token \in RestTokens, identifier \in RestIdentifiers,
          update \in RestUpdates :
        \E auth \in {get_current_admin(admins, token, now)} :
            IF auth.status # 200
            THEN /\ last' = Rejected("PUT /students", token, auth)
                 /\ UNCHANGED students
            ELSE \E r \in {api_update_student(students, identifier, update)} :
                    /\ students' = r.coll
                    /\ last' = Answered("PUT /students", token, r.status, r.result)
    /\ ops' = ops + 1
    /\ UNCHANGED <<nextOid, addVars, authVars, chatVars, threads>>

ApiDeleteStudent ==
    /\ ops < MaxOps
    /\ \E token \in RestTokens, identifier \in RestIdentifiers :
        \E auth \in {get_current_admin(admins, token, now)} :
            IF auth.status # 200
            THEN /\ last' = Rejected("DELETE /students", token, auth)
                 /\ UNCHANGED students
            ELSE \E r \in {api_delete_student(students, identifier)} :
                    /\ students' = r.coll
                    /\ last' = Answered("DELETE /students", token, r.status, r.result)
    /\ ops' = ops + 1
    /\ UNCHANGED <<nextOid, addVars, authVars, chatVars, threads>>

ApiListStudents ==
    /\ ops < MaxOps
    /\ \E token \in RestTokens :
        \E auth \in {get_current_admin(admins, token, now)} :
            last' = IF auth.status # 200
                    THEN Rejected("GET /students/list", token, auth)
                    ELSE Answered("GET /students/list", token, 200,
                                  api_list_students(students))
    /\ ops' = ops + 1
    /\ UNCHANGED <<students, nextOid, addVars, authVars, chatVars, threads>>

ApiTotalStudents ==
    /\ ops < MaxOps
    /\ \E token \in RestTokens :
        \E auth \in {get_current_admin(admins, token, now)} :
            last' = IF auth.status # 200
                    THEN Rejected("GET /analytics/total", token, auth)
                    ELSE Answered("GET /analytics/total", token, 200,
                                  api_total_students(students))
    /\ ops' = ops + 1
    /\ UNCHANGED <<students, nextOid, addVars, authVars, chatVars, threads>>

ApiStudentsByDepartment ==
    /\ ops < MaxOps
    /\ \E token \in RestTokens :
        \E auth \in {get_current_admin(admins, token, now)} :
            last' = IF auth.status # 200
                    THEN Rejected("GET /analytics/by-department", token, auth)
                    ELSE Answered("GET /analytics/by-department", token, 200,
                                  api_students_by_department(students))
    /\ ops' = ops + 1
    /\ UNCHANGED <<students, nextOid, addVars, authVars, chatVars, threads>>

ApiRecentStudents ==
    /\ ops < MaxOps
    /\ \E token \in RestTokens, limit \in Limits :
        \E auth \in {get_current_admin(admins, token, now)} :
            last' = IF auth.status # 200
                    THEN Rejected("GET /analytics/recent", token, auth)
                    ELSE Answered("GET /analytics/recent", token, 200,
                                  api_recent_students(students, limit))
    /\ ops' = ops + 1
    /\ UNCHANGED <<students, nextOid, addVars, authVars, chatVars, threads>>

ApiActiveLast7Days ==
    /\ ops < MaxOps
    /\ \E token \in RestTokens :
        \E auth \in {get_current_admin(admins, token, now)} :
            last' = IF auth.status # 200
                    THEN Rejected("GET /analytics/active", token, auth)
                    ELSE Answered("GET /analytics/active", token, 200,
                                  api_active_last_7_days(students))
    /\ ops' = ops + 1
    /\ UNCHANGED <<students, nextOid, addVars, authVars, chatVars, threads>>

ApiCafeteria ==
    /\ ops < MaxOps
    /\ \E token \in RestTokens :
        \E auth \in {get_current_admin(admins, token, now)} :
            last' = IF auth.status # 200
                    THEN Rejected("GET /faq/cafeteria", token, auth)
                    ELSE Answered("GET /faq/cafeteria", token, 200, api_cafeteria)
    /\ ops' = ops + 1
    /\ UNCHANGED <<students, nextOid, addVars, authVars, chatVars, threads>>

ApiLibrary ==
    /\ ops < MaxOps
    /\ \E token \in RestTokens :
        \E auth \in {get_current_admin(admins, token, now)} :
            last' = IF auth.status # 200
                    THEN Rejected("GET /faq/library", token, auth)
                    ELSE Answered("GET /faq/library", token, 200, api_library)
    /\ ops' = ops + 1
    /\ UNCHANGED <<students, nextOid, addVars, authVars, chatVars, threads>>

ApiEvents ==
    /\ ops < MaxOps
    /\ \E token \in RestTokens :
        \E auth \in {get_current_admin(admins, token, now)} :
            last' = IF auth.status # 200
                    THEN Rejected("GET /faq/events", token, auth)
                    ELSE Answered("GET /faq/events", token, 200, api_events)
    /\ ops' = ops + 1
    /\ UNCHANGED <<students, nextOid, addVars, authVars, chatVars, threads>>

NextRest ==
    \/ ApiAddStudent \/ ApiGetStudent \/ ApiUpdateStudent \/ ApiDeleteStudent
    \/ ApiListStudents \/ ApiTotalStudents \/ ApiStudentsByDepartment
    \/ ApiRecentStudents \/ ApiActiveLast7Days
    \/ ApiCafeteria \/ ApiLibrary \/ ApiEvents
    \/ ChatAgent \/ ChatAgentStream \/ Tick

SpecRest == InitRest /\ [][NextRest]_vars

-----------------------------------------------------------------------------
(* Properties of the protected routes *)

\* the token is validly signed, unexpired, and its subject is the email of an
\* existing admin account
TokenAccepted(token) ==
    /\ token.key = "SECRET_KEY"
    /\ token.exp > now
    /\ \E i \in 1..Len(admins) : admins[i].email = token.sub

\* the request served by this step is the one recorded in rec
Served(rec) == rec.op # "none" /\ rec.n = ops + 1

\* C11: every student, analytics, FAQ and chat route runs its tool only if the
\* bearer token is validly signed, unexpired and names an existing admin; in
\* every other case the response is 401 and the student collection and the
\* threads are unchanged.
C11_TokenRequired ==
    [][(ops' = ops + 1) =>
        /\ (Served(last') /\ ~TokenAccepted(last'.token)) =>
            /\ ~last'.ran
            /\ last'.status = 401
            /\ students' = students
            /\ checkpoints' = checkpoints
        /\ (Served(chatLast') /\ ~TokenAccepted(chatLast'.token)) =>
            /\ ~chatLast'.ran
            /\ chatLast'.status = 401
            /\ students' = students
            /\ checkpoints' = checkpoints]_vars

\* a DELETE /students request with an expired token of the admin was answered
\* 401 after a chat request of that admin had run the graph and a record
\* matching the identifier was in the collection
C11_Witness ==
    /\ last.op = "DELETE /students"
    /\ last.status = 401
    /\ last.token.key = "SECRET_KEY"
    /\ last.token.sub = <<"a">>
    /\ last.token.exp <= now
    /\ chatLast.op = "/chat/stream"
    /\ chatLast.ran
    /\ Len(students) >= 1

-----------------------------------------------------------------------------
(* openai_sdk_agent.py: get_or_create_thread_id, called by the chat routes.   *)
(* The routes are async def functions and the call does not await, so the     *)
(* calls made on one server process run one after the other; requests served  *)
(* by different server processes on the same database interleave at the       *)
(* find_one and at the insert_one.                                            *)

Identities == {<<"1">>, <<"2">>}

Workers == {1, 2}

\* threads.find_one({"student_id": student_id})
thread_record(coll, student_id) == find_one(coll, "student_id", student_id)

\* new_thread_id = str(ObjectId())
new_thread_id(oid) == StrOf(oid)

\* the mapping insert_one stores, with the _id the driver adds
thread_doc(oid, student_id) ==
    [student_id |-> student_id, thread_id |-> new_thread_id(oid)]
        @@ ("_id" :> oid + 1)

\* another call is under way on the server process of request p
WorkerBusy(p) ==
    \E q \in Procs :
        q # p /\ pc[q] = "insert_one" /\ req[q].worker = req[p].worker

InitThreads ==
    /\ students = <<>>
    /\ nextOid = 1
    /\ last = [op |-> "get_or_create_thread_id", returned |-> {}]
    /\ ops = 0
    /\ pc = NoRequests
    /\ req = NoArgs
    /\ reply = NoReply
    /\ admins = <<>>
    /\ signed = {}
    /\ now = 0
    /\ authLast = NoLast
    /\ checkpoints = NoThreads
    /\ chatLast = NoLast
    /\ threads = <<>>

\* a GET /chat or GET /chat/stream request for an identity reaches a process
ThreadRequest ==
    /\ ops < MaxOps
    /\ \E p \in Procs, student_id \in Identities, worker \in Workers :
        /\ pc[p] \in {"idle", "done"}
        /\ req' = [req EXCEPT ![p] = [student_id |-> student_id, worker |-> worker]]
        /\ pc' = [pc EXCEPT ![p] = "find_one"]
        /\ reply' = [reply EXCEPT ![p] = [kind |-> "none"]]
    /\ ops' = ops + 1
    /\ UNCHANGED <<students, nextOid, last, authVars, chatVars, threads>>

\* openai_sdk_agent.py:52-54: the lookup, and the return of a mapping found
ThreadFindOne ==
    \E p \in Procs :
        /\ pc[p] = "find_one"
        /\ ~WorkerBusy(p)
        /\ \E record \in {thread_record(threads, req[p].student_id)} :
            IF ~IsNone(record)
            THEN /\ reply' = [reply EXCEPT ![p] =
                                [kind |-> "thread", thread_id |-> record.thread_id]]
                 /\ last' = [last EXCEPT !.returned =
                                @ \cup {<<req[p].student_id, record.thread_id>>}]
                 /\ pc' = [pc EXCEPT ![p] = "done"]
            ELSE /\ pc' = [pc EXCEPT ![p] = "insert_one"]
                 /\ UNCHANGED <<reply, last>>
        /\ UNCHANGED <<students, nextOid, ops, req, authVars, chatVars, threads>>

\* openai_sdk_agent.py:55-57: the fresh thread id, its insert and its return
ThreadInsertOne ==
    \E p \in Procs :
        /\ pc[p] = "insert_one"
        /\ threads' = insert_one(threads, thread_doc(nextOid, req[p].student_id))
        /\ nextOid' = nextOid + 2
        /\ reply' = [reply EXCEPT ![p] =
                        [kind |-> "thread", thread_id |-> new_thread_id(nextOid)]]
        /\ last' = [last EXCEPT !.returned =
                        @ \cup {<<req[p].student_id, new_thread_id(nextOid)>>}]
        /\ pc' = [pc EXCEPT ![p] = "done"]
        /\ UNCHANGED <<students, ops, req, authVars, chatVars>>

NextThreads == ThreadRequest \/ ThreadFindOne \/ ThreadInsertOne

SpecThreads == InitThreads /\ [][NextThreads]_vars

\* C15: for every interleaving of concurrent chat requests for one identity,
\* get_or_create_thread_id leaves at most one identity -> thread mapping
\* persisted for that identity and returns the same thread_id to every call.
C15_OneThreadPerIdentity ==
    /\ \A i, j \in 1..Len(threads) :
        i # j => threads[i].student_id # threads[j].student_id
    /\ \A a, b \in last.returned : a[1] = b[1] => a[2] = b[2]

-----------------------------------------------------------------------------
(* Properties of the student tools *)

StoredEmails == {students[i].email : i \in 1..Len(students)}

StoredIds == {students[i].student_id : i \in 1..Len(students)}

IsStudent(result, doc) ==
    /\ result.kind = "student"
    /\ result.student = WithStrId(doc)

NotFound(result) ==
    /\ result.kind = "error"
    /\ result.error = "Student not found"

\* a string that names no stored record, by email or by student_id
NamesNoRecord(s) ==
    /\ s \notin StoredEmails
    /\ NormEmail(s) \notin StoredEmails
    /\ ~(IntParses(s) /\ IntOf(s) \in StoredIds)

\* C1: in every reachable store state, for every stored record with email E
\* and student_id I, get_student(E) and get_student(str(I)) both return that
\* record, and get_student of a string that is neither a stored email nor a
\* stored student_id reports "Student not found".
C1_IdentifierResolution ==
    /\ \A i \in 1..Len(students) :
        /\ IsStudent(get_student(students, students[i].email).result, students[i])
        /\ IsStudent(get_student(students, StrOf(students[i].student_id)).result,
                     students[i])
    /\ \A s \in Strings :
        NamesNoRecord(s) => NotFound(get_student(students, s).result)

\* C2: no two stored student records have the same email, compared after
\* lower-casing and trimming.
C2_EmailUnique ==
    \A i, j \in 1..Len(students) :
        i # j => NormEmail(students[i].email) # NormEmail(students[j].email)

StudentTools ==
    {"add_student", "get_student", "update_student", "delete_student", "send_email"}

\* C8: every student tool returns a success payload or a structured error
\* payload and never raises.
C8_ToolsNeverRaise ==
    last.op \in StudentTools => last.result.kind # "raise"

C9_Whitelist == {"name", "department", "email", "student_id"}

\* C9: update_student with a field outside {name, department, email,
\* student_id} returns the "Invalid field" error and leaves the whole student
\* collection unchanged, whatever the identifier and the value.
C9_UpdateWhitelist ==
    [][(last'.op = "update_student" /\ ops' = ops + 1
            /\ last'.field \notin C9_Whitelist)
        => (students' = students /\ last'.result = Err("Invalid field"))]_vars

\* an update with a field outside the whitelist was served on a non-empty
\* collection, with an identifier that resolves to a stored record
C9_Witness ==
    /\ last.op = "update_student"
    /\ last.field \notin C9_Whitelist
    /\ last.result = Err("Invalid field")
    /\ Len(students) = 2

StudentRoutes == {"GET /students", "PUT /students", "DELETE /students"}

\* C12: a not-found error maps to 404 on every student route: PUT /students
\* with a whitelisted field and an identifier that resolves to no record
\* answers 404, as GET and DELETE do, while its other errors answer 400.
C12_NotFoundIs404 ==
    (last.op \in StudentRoutes /\ last.ran /\ last.result.kind = "error")
    => IF NotFound(last.result) THEN last.status = 404
       ELSE last.op = "PUT /students" => last.status = 400

\* C13: when delete_student(x) returns the confirmation, exactly one record
\* has been removed, the one get_student(x) returned just before, and a
\* get_student(x) that follows at once reports "Student not found".
C13_DeleteThenGet ==
    [][(ops' = ops + 1 /\ last'.op = "delete_student" /\ last'.result.kind = "ok")
        => /\ ~IsNone(Resolve(students, last'.identifier))
           /\ students' =
                delete_one(students, "_id",
                           Resolve(students, last'.identifier)["_id"]).coll
           /\ Len(students') = Len(students) - 1
           /\ NotFound(get_student(students', last'.identifier).result)]_vars

\* the value update_student stores: the integer for student_id, the string
\* for every other field
C14_NewValue(field, new_value) ==
    IF field = "student_id" THEN IntOf(new_value) ELSE new_value

\* C14: on success update_student returns the record it modified, in its
\* state after the update: the "student" of the result is the stored document
\* update_one changed and holds the new value in the updated field, for both
\* identifier forms and every whitelisted field.
C14_ReturnsModified ==
    [][(ops' = ops + 1 /\ last'.op = "update_student" /\ last'.result.kind = "ok")
        => /\ last'.idx \in 1..Len(students')
           /\ last'.result.student = WithStrId(students'[last'.idx])
           /\ last'.result.student[last'.field]
                = C14_NewValue(last'.field, last'.new_value)]_vars

\* C16: every stored student email is lower-cased and trimmed, so get_student,
\* update_student, delete_student and send_email given a record's stored
\* email string find that record.
C16_StoredEmailsNormalized ==
    \A i \in 1..Len(students) :
        /\ students[i].email = NormEmail(students[i].email)
        /\ IsStudent(get_student(students, students[i].email).result, students[i])
        /\ send_email(students, students[i].email).result.kind = "ok"
        /\ send_email(students, students[i].email).result.to = students[i].email
        /\ update_student(students, students[i].email, "name", <<"m">>).idx = i
        /\ delete_student(students, students[i].email).coll
            = delete_one(students, "_id", students[i]["_id"]).coll

=============================================================================
